---- MODULE Spec2Model ----
(***************************************************************************)
(* Model of the three data_cleaning tools:                                 *)
(*   import_data.py      resumable, budget-bounded downloader              *)
(*   merge_clean_all.py  cleaning / merge pipeline                         *)
(*   view_data.py        per-file sampling pipeline                        *)
(*                                                                         *)
(* Strings are sequences of tokens: "amazon_reviews", "/", "_", one token  *)
(* per decimal digit, "s", "x" (any other character) and the suffixes      *)
(* ".snappy.parquet", ".parquet", ".txt".  File contents are sequences of  *)
(* bytes; one unit of size stands for 0.2 GB, so the 0.6 GB objects of the *)
(* budget scenario have 3 units and the 1 GB budget has 5.                 *)
(***************************************************************************)
EXTENDS Integers, Sequences, FiniteSets, TLC

VARIABLES
    pc,               \* position of the running tool's main()
    run,              \* number of the current invocation of import_data.main
    pages,            \* the remote listing: the chain of listing pages
    token,            \* list_keys: token (0 = None)
    keys,             \* list_keys: keys accumulated / main: keys
    chosen,           \* main: chosen, the list of RemoteFile
    fstate,           \* per chosen file: idle, probed, skipped, downloading, complete, failed
    fetch,            \* per chosen file: what its download_file call saw (history)
    pi,               \* index of the probing loop (line 164)
    li,               \* index of the download loop (line 187)
    downloaded_bytes, \* main: downloaded_bytes
    disk,             \* OUT_DIR: file name -> bytes, or NoFile
    disk0,            \* OUT_DIR as it was when the current run started (history)
    cut,              \* names whose bytes were left by an interrupted fresh fetch (history)
    requests,         \* requests sent to the remote store in the current run (history)
    dl,               \* download_file: the open response and file
    tool,             \* which tool is running: import, merge or sample
    dataDir,          \* --data_dir: file name -> rows
    nArg,             \* view_data --n
    flags,            \* merge_clean_all --drop_blank_category / --drop_blank_body
    where_clauses,    \* merge_clean_all: where_clauses
    engineCalls,      \* number of con.execute calls made
    out,              \* the --out file: [exists, rows]
    prevOut,          \* the --out file as it was when the current run started (history)
    diag,             \* the message SystemExit was raised with ("" if none)
    exitStatus        \* process exit status of the last finished run (None while running)

vars == <<pc, run, pages, token, keys, chosen, fstate, fetch, pi, li,
          downloaded_bytes, disk, disk0, cut, requests, dl, tool, dataDir,
          nArg, flags, where_clauses, engineCalls, out, prevOut, diag, exitStatus>>

dlVars   == <<run, pages, token, keys, chosen, fstate, fetch, pi, li,
              downloaded_bytes, disk, disk0, cut, requests, dl>>
pipeVars == <<dataDir, nArg, flags, where_clauses, engineCalls, out, prevOut, diag>>

-----------------------------------------------------------------------------
(* Bounds *)

ObjSize == 3   \* size of every remote object, in units
MaxRuns == 2   \* invocations of import_data.main in one behaviour
MaxRows == 2   \* rows in the input file the pipelines' rows are drawn for
MaxN    == 3   \* largest --n given to view_data

(* Program constants, scaled *)

TARGET_BYTES == 5   \* int(TARGET_GB * 1024**3), the 1 GB budget of the scenario
CHUNK_BYTES  == 1   \* chunk_size of iter_content

TARGET_YEARS == <<2010, 2011, 2012, 2013, 2014, 2015>>

None   == -1        \* Python None of an Optional[int]
NoFile == <<-1>>    \* os.path.exists(path) is false
NoOut  == [exists |-> FALSE, rows |-> <<>>]   \* the --out file does not exist

-----------------------------------------------------------------------------
(* Strings *)

Digits == {"0", "1", "2", "3", "4", "5", "6", "7", "8", "9"}

DigitVal(c) ==
    CASE c = "0" -> 0 [] c = "1" -> 1 [] c = "2" -> 2 [] c = "3" -> 3
      [] c = "4" -> 4 [] c = "5" -> 5 [] c = "6" -> 6 [] c = "7" -> 7
      [] c = "8" -> 8 [] c = "9" -> 9

RECURSIVE ToInt(_)
ToInt(ds) ==
    IF ds = <<>> THEN 0
    ELSE 10 * ToInt(SubSeq(ds, 1, Len(ds) - 1)) + DigitVal(ds[Len(ds)])

EndsWith(s, suf) ==
    Len(s) >= Len(suf) /\ SubSeq(s, Len(s) - Len(suf) + 1, Len(s)) = suf

StartsWith(s, pre) ==
    Len(s) >= Len(pre) /\ SubSeq(s, 1, Len(pre)) = pre

SNAPPY == <<".snappy.parquet">>

\* k.endswith(".parquet") on a file name
EndsWithParquet(name) ==
    name # <<>> /\ name[Len(name)] \in {".snappy.parquet", ".parquet"}

\* last position of "/" in a path, 0 if there is none
LastSlash(path) ==
    LET S == {j \in 1..Len(path) : path[j] = "/"}
    IN  IF S = {} THEN 0 ELSE CHOOSE j \in S : \A h \in S : h <= j

basename(path) == SubSeq(path, LastSlash(path) + 1, Len(path))

Range(s) == {s[j] : j \in 1..Len(s)}

-----------------------------------------------------------------------------
(* import_data.py: key-to-year mapping and selection *)

\* re.search(r"amazon_reviews_(\d{4})" + tail + "$", key)
MatchYear(key, tail) ==
    LET n == Len(key)
        t == Len(tail)
    IN  /\ n >= 6 + t
        /\ SubSeq(key, n - t + 1, n) = tail
        /\ key[n - t - 5] = "amazon_reviews"
        /\ key[n - t - 4] = "_"
        /\ \A j \in (n - t - 3)..(n - t) : key[j] \in Digits

\* int(m.group(1))
YearGroup(key, tail) ==
    ToInt(SubSeq(key, Len(key) - Len(tail) - 3, Len(key) - Len(tail)))

infer_year_from_key(key) ==
    IF MatchYear(key, SNAPPY) THEN YearGroup(key, SNAPPY)
    ELSE IF MatchYear(key, <<"s">> \o SNAPPY) THEN YearGroup(key, <<"s">> \o SNAPPY)
    ELSE None

IsDecadeKey_never(k) == FALSE

\* k.endswith("s.snappy.parquet")
IsDecadeKey(k) ==
    /\ Len(k) >= 2
    /\ k[Len(k)] = ".snappy.parquet"
    /\ k[Len(k) - 1] \in {"s", "amazon_reviews"}

\* the loop of lines 137-145: a later key of a year replaces an earlier one
RECURSIVE YearToKey(_, _)
YearToKey(ks, d) ==
    IF ks = <<>> THEN d
    ELSE LET k == Head(ks)
             y == infer_year_from_key(k)
         IN  YearToKey(Tail(ks),
                 IF y = None \/ IsDecadeKey(k) THEN d
                 ELSE [yy \in (DOMAIN d) \cup {y} |-> IF yy = y THEN k ELSE d[yy]])

\* the loop of lines 148-155
RECURSIVE ChooseTargets(_, _)
ChooseTargets(ys, d) ==
    IF ys = <<>> THEN <<>>
    ELSE (IF Head(ys) \in DOMAIN d
          THEN <<[key |-> d[Head(ys)], year |-> Head(ys), size_bytes |-> None]>>
          ELSE <<>>)
         \o ChooseTargets(Tail(ys), d)

\* keys = [k for k in keys if k.endswith(".snappy.parquet")]
RECURSIVE KeepParquet(_)
KeepParquet(ks) ==
    IF ks = <<>> THEN <<>>
    ELSE (IF EndsWith(Head(ks), SNAPPY) THEN <<Head(ks)>> ELSE <<>>)
         \o KeepParquet(Tail(ks))

-----------------------------------------------------------------------------
(* The remote store *)

Year4(y) ==
    LET d(v) == CHOOSE c \in Digits : DigitVal(c) = v
    IN  <<d(y \div 1000), d((y \div 100) % 10), d((y \div 10) % 10), d(y % 10)>>

YearKey(y)   == <<"amazon_reviews", "/", "amazon_reviews", "_">> \o Year4(y) \o SNAPPY
DecadeKey(y) == <<"amazon_reviews", "/", "amazon_reviews", "_">> \o Year4(y) \o <<"s">> \o SNAPPY
OtherKey     == <<"amazon_reviews", "/", "x", ".txt">>
StrayKey     == <<"amazon_reviews", "/", "x", "_", "2", "0", "1", "1">> \o SNAPPY

RemoteSize(key) == ObjSize

\* the bytes of the object stored under key
RemoteContent(key) ==
    [p \in 1..RemoteSize(key) |-> 10 * (infer_year_from_key(key) % 100) + p]


DlYears == {2010, 2011, 2012}

OldFile   == <<"old", ".parquet">>
NotesFile == <<"notes", ".txt">>

DiskNames == {basename(YearKey(y)) : y \in DlYears} \cup {OldFile, NotesFile}

\* a listing page: its <Key> markers and its <NextContinuationToken> (0 = none)
Page(ks, next) == [keys |-> ks, next |-> next]

DlListings ==
    { <<Page(<<YearKey(2010), DecadeKey(2010)>>, 7),
        Page(<<OtherKey, YearKey(2011), YearKey(2012)>>, 0)>>,
      <<Page(<<YearKey(2012), StrayKey, YearKey(2010)>>, 0)>>,
      <<Page(<<YearKey(2011), DecadeKey(2010)>>, 0)>>,
      <<Page(<<DecadeKey(2010), StrayKey>>, 0)>>,
      <<Page(<<OtherKey>>, 0)>> }

\* what a local file of a chosen key may hold before the first run
LocalBefore(key) ==
    { NoFile, <<0>>, RemoteContent(key), [p \in 1..(RemoteSize(key) + 1) |-> 0] }

-----------------------------------------------------------------------------
(* import_data.py: budget, skip decision, download_file *)

\* sum of os.path.getsize over the names of OUT_DIR ending in ".parquet"
DirTotal(d) ==
    LET names == {nm \in DOMAIN d : d[nm] # NoFile /\ EndsWithParquet(nm)}
        RECURSIVE Sum(_)
        Sum(S) == IF S = {} THEN 0
                  ELSE LET nm == CHOOSE x \in S : TRUE
                       IN  Len(d[nm]) + Sum(S \ {nm})
    IN  Sum(names)

Rescan_increment(total, written, d) == total + written

\* lines 205-209: downloaded_bytes is recomputed from OUT_DIR after a download
Rescan(total, written, d) == DirTotal(d)

BudgetMet_gt(total) == total > TARGET_BYTES

\* if downloaded_bytes >= target_bytes: break
BudgetMet(total) == total >= TARGET_BYTES

SeemsComplete_gt(local, size) ==
    local # NoFile /\ size # None /\ Len(local) > size

SeemsComplete_anysize(local, size) ==
    local # NoFile /\ (size = None \/ Len(local) >= size)

\* os.path.exists(out_path) and rf.size_bytes is not None and getsize >= size_bytes
SeemsComplete(local, size) ==
    local # NoFile /\ size # None /\ Len(local) >= size

\* head_size: None on any failure or when Content-Length is missing
head_size(resp) ==
    IF ~resp.ok THEN None ELSE resp.content_length

HeadResponses(key) ==
    { [ok |-> TRUE,  content_length |-> RemoteSize(key)],
      [ok |-> TRUE,  content_length |-> None],
      [ok |-> FALSE, content_length |-> None] }

\* existing = getsize(out_path) if it exists else 0
Existing(local) == IF local = NoFile THEN 0 ELSE Len(local)

\* what the object endpoint may answer to GET with "Range: bytes=e-" (e = 0: no Range);
\* status 0 is a transport failure before any response
GetResponses(key, e) ==
    LET full == RemoteContent(key)
    IN  { [status |-> 200, body |-> full],
          [status |-> 500, body |-> <<>>],
          [status |-> 0,   body |-> <<>>] }
        \cup (IF e > 0 /\ e < Len(full)
              THEN {[status |-> 206, body |-> SubSeq(full, e + 1, Len(full))]}
              ELSE {})
        \cup (IF e > 0 /\ e >= Len(full)
              THEN {[status |-> 416, body |-> <<>>]}
              ELSE {})

GetFails_transport(resp) == resp.status = 0

\* r.raise_for_status() raises, or requests.get itself raised
GetFails(resp) == resp.status = 0 \/ resp.status >= 400

OpenMode_append(existing) == "ab"

ResumeFrom_keep(status, existing) == existing

\* if r.status_code == 200 and existing > 0: existing = 0
ResumeFrom(status, existing) ==
    IF status = 200 /\ existing > 0 THEN 0 ELSE existing

\* mode = "ab" if existing > 0 else "wb"
OpenMode(existing) == IF existing > 0 THEN "ab" ELSE "wb"

\* open(out_path, mode): "wb" truncates, "ab" keeps the bytes
Opened(local, mode) == IF mode = "wb" \/ local = NoFile THEN <<>> ELSE local

NoDl    == [name |-> <<>>, mode |-> "", body |-> <<>>, written |-> 0]
NoFetch == [E |-> 0, status |-> 0, wasCut |-> FALSE, final |-> None]


-----------------------------------------------------------------------------
(* import_data.py: the run *)

Append1(s, e) == s \o <<e>>

Req(method, key, start) == [method |-> method, key |-> key, start |-> start]

PipeIdle ==
    /\ dataDir = <<>>
    /\ nArg = 0
    /\ flags = [drop_blank_category |-> FALSE, drop_blank_body |-> FALSE]
    /\ where_clauses = {}
    /\ engineCalls = 0
    /\ out = NoOut
    /\ prevOut = NoOut
    /\ diag = ""

RunStart ==
    /\ pc = "list"
    /\ token = 0
    /\ keys = <<>>
    /\ chosen = <<>>
    /\ fstate = <<>>
    /\ fetch = <<>>
    /\ pi = 1
    /\ li = 1
    /\ downloaded_bytes = 0
    /\ requests = <<>>
    /\ dl = NoDl
    /\ exitStatus = None

Init ==
    /\ tool = "import"
    /\ run = 1
    /\ pages \in DlListings
    /\ disk \in {d \in [DiskNames -> {NoFile, <<0>>, <<0, 0>>} \cup
                          UNION {LocalBefore(YearKey(y)) : y \in DlYears}] :
                   /\ \A y \in DlYears : d[basename(YearKey(y))] \in LocalBefore(YearKey(y))
                   /\ d[OldFile] \in {NoFile, <<0, 0>>}
                   /\ d[NotesFile] = <<0>>}
    /\ disk0 = disk
    /\ cut = {}
    /\ RunStart
    /\ PipeIdle

PREFIX == <<"amazon_reviews", "/">>

\* the page the listing endpoint answers a request carrying continuation token t
\* with (0: no token, the first page)
PageFor(t) ==
    IF t = 0 THEN pages[1]
    ELSE pages[CHOOSE p \in 2..Len(pages) : pages[p - 1].next = t]

Accumulate_replace(ks, found) == found

\* keys.extend(found)
Accumulate(ks, found) == ks \o found

\* list_keys, one iteration of the while loop: one listing request that succeeds
ListPage ==
    /\ tool = "import" /\ pc = "list"
    /\ requests' = Append1(requests, Req("LIST", PREFIX, token))
    /\ LET page  == PageFor(token)
           found == page.keys
       IN  /\ keys' = (IF page.next = 0 THEN KeepParquet(Accumulate(keys, found))
                       ELSE Accumulate(keys, found))
           /\ token' = page.next
           /\ pc' = IF page.next = 0 THEN "select" ELSE "list"
    /\ UNCHANGED <<run, pages, chosen, fstate, fetch, pi, li, downloaded_bytes,
                   disk, disk0, cut, dl, tool, exitStatus>>
    /\ UNCHANGED pipeVars

ListFail_partial ==
    /\ tool = "import" /\ pc = "list"
    /\ requests' = Append1(requests, Req("LIST", PREFIX, token))
    /\ keys' = KeepParquet(keys)
    /\ pc' = "select"
    /\ UNCHANGED <<run, pages, token, chosen, fstate, fetch, pi, li,
                   downloaded_bytes, disk, disk0, cut, dl, tool, exitStatus>>
    /\ UNCHANGED pipeVars

\* list_keys: requests.get or raise_for_status raises; the exception ends the run
ListFail ==
    /\ tool = "import" /\ pc = "list"
    /\ requests' = Append1(requests, Req("LIST", PREFIX, token))
    /\ pc' = "fatal"
    /\ exitStatus' = 1
    /\ UNCHANGED <<run, pages, token, keys, chosen, fstate, fetch, pi, li,
                   downloaded_bytes, disk, disk0, cut, dl, tool>>
    /\ UNCHANGED pipeVars

\* main, lines 130-160, when the listing or the selection is empty
SelectNone ==
    /\ tool = "import" /\ pc = "select"
    /\ keys = <<>> \/ ChooseTargets(TARGET_YEARS, YearToKey(keys, <<>>)) = <<>>
    /\ pc' = "fatal"
    /\ exitStatus' = 1
    /\ UNCHANGED <<run, pages, token, keys, chosen, fstate, fetch, pi, li,
                   downloaded_bytes, disk, disk0, cut, requests, dl, tool>>
    /\ UNCHANGED pipeVars

\* main, lines 134-160
Select ==
    /\ tool = "import" /\ pc = "select"
    /\ keys # <<>>
    /\ LET sel == ChooseTargets(TARGET_YEARS, YearToKey(keys, <<>>))
       IN  /\ sel # <<>>
           /\ chosen' = sel
           /\ fstate' = [j \in 1..Len(sel) |-> "idle"]
           /\ fetch' = [j \in 1..Len(sel) |-> NoFetch]
    /\ pi' = 1
    /\ pc' = "probe"
    /\ UNCHANGED <<run, pages, token, keys, li, downloaded_bytes, disk, disk0,
                   cut, requests, dl, tool, exitStatus>>
    /\ UNCHANGED pipeVars

\* main, lines 164-169: one HEAD request
Probe ==
    /\ tool = "import" /\ pc = "probe"
    /\ pi <= Len(chosen)
    /\ \E resp \in HeadResponses(chosen[pi].key) :
          chosen' = [chosen EXCEPT ![pi].size_bytes = head_size(resp)]
    /\ requests' = Append1(requests, Req("HEAD", chosen[pi].key, 0))
    /\ fstate' = [fstate EXCEPT ![pi] = "probed"]
    /\ pi' = pi + 1
    /\ UNCHANGED <<pc, run, pages, token, keys, fetch, li, downloaded_bytes, disk,
                   disk0, cut, dl, tool, exitStatus>>
    /\ UNCHANGED pipeVars

\* main, lines 178-185: the first scan of OUT_DIR
ScanDir ==
    /\ tool = "import" /\ pc = "probe"
    /\ pi > Len(chosen)
    /\ downloaded_bytes' = DirTotal(disk)
    /\ li' = 1
    /\ pc' = "loop"
    /\ UNCHANGED <<run, pages, token, keys, chosen, fstate, fetch, pi, disk, disk0,
                   cut, requests, dl, tool, exitStatus>>
    /\ UNCHANGED pipeVars

\* the for loop is exhausted, or the budget check breaks out of it: lines 217-219
Finished ==
    /\ tool = "import" /\ pc = "loop"
    /\ li > Len(chosen) \/ BudgetMet(downloaded_bytes)
    /\ pc' = "done"
    /\ exitStatus' = 0
    /\ UNCHANGED <<run, pages, token, keys, chosen, fstate, fetch, pi, li,
                   downloaded_bytes, disk, disk0, cut, requests, dl, tool>>
    /\ UNCHANGED pipeVars

OutName == basename(chosen[li].key)

\* lines 194-198: skip
Skip ==
    /\ tool = "import" /\ pc = "loop"
    /\ li <= Len(chosen) /\ ~BudgetMet(downloaded_bytes)
    /\ SeemsComplete(disk[OutName], chosen[li].size_bytes)
    /\ fstate' = [fstate EXCEPT ![li] = "skipped"]
    /\ li' = li + 1
    /\ UNCHANGED <<pc, run, pages, token, keys, chosen, fetch, pi, downloaded_bytes,
                   disk, disk0, cut, requests, dl, tool, exitStatus>>
    /\ UNCHANGED pipeVars

\* download_file, lines 98-117: the GET request is answered and the file is opened
StartDownload ==
    /\ tool = "import" /\ pc = "loop"
    /\ li <= Len(chosen) /\ ~BudgetMet(downloaded_bytes)
    /\ ~SeemsComplete(disk[OutName], chosen[li].size_bytes)
    /\ LET existing == Existing(disk[OutName])
       IN  /\ requests' = Append1(requests, Req("GET", chosen[li].key, existing))
           /\ \E resp \in GetResponses(chosen[li].key, existing) :
                 LET ex   == ResumeFrom(resp.status, existing)
                     mode == OpenMode(ex)
                 IN  /\ ~GetFails(resp)
                     /\ fetch' = [fetch EXCEPT ![li] =
                                    [E |-> existing, status |-> resp.status,
                                     wasCut |-> OutName \in cut, final |-> None]]
                     /\ disk' = [disk EXCEPT ![OutName] = Opened(@, mode)]
                     /\ dl' = [name |-> OutName, mode |-> mode,
                               body |-> resp.body, written |-> ex]
    /\ fstate' = [fstate EXCEPT ![li] = "downloading"]
    /\ pc' = "stream"
    /\ UNCHANGED <<run, pages, token, keys, chosen, pi, li, downloaded_bytes, disk0,
                   cut, tool, exitStatus>>
    /\ UNCHANGED pipeVars

\* download_file, lines 108-112: requests.get or raise_for_status raises
DownloadRefused ==
    /\ tool = "import" /\ pc = "loop"
    /\ li <= Len(chosen) /\ ~BudgetMet(downloaded_bytes)
    /\ ~SeemsComplete(disk[OutName], chosen[li].size_bytes)
    /\ LET existing == Existing(disk[OutName])
       IN  /\ requests' = Append1(requests, Req("GET", chosen[li].key, existing))
           /\ \E resp \in GetResponses(chosen[li].key, existing) :
                 /\ GetFails(resp)
                 /\ fetch' = [fetch EXCEPT ![li] =
                                [E |-> existing, status |-> resp.status,
                                 wasCut |-> OutName \in cut, final |-> None]]
    /\ fstate' = [fstate EXCEPT ![li] = "failed"]
    /\ pc' = "fatal"
    /\ exitStatus' = 1
    /\ UNCHANGED <<run, pages, token, keys, chosen, pi, li, downloaded_bytes, disk,
                   disk0, cut, dl, tool>>
    /\ UNCHANGED pipeVars

\* download_file, lines 118-122: one chunk is written
WriteChunk ==
    /\ tool = "import" /\ pc = "stream"
    /\ dl.body # <<>>
    /\ LET k     == IF Len(dl.body) < CHUNK_BYTES THEN Len(dl.body) ELSE CHUNK_BYTES
           chunk == SubSeq(dl.body, 1, k)
       IN  /\ disk' = [disk EXCEPT ![dl.name] = @ \o chunk]
           /\ dl' = [dl EXCEPT !.body = SubSeq(@, k + 1, Len(@)),
                               !.written = @ + Len(chunk)]
    /\ UNCHANGED <<pc, run, pages, token, keys, chosen, fstate, fetch, pi, li,
                   downloaded_bytes, disk0, cut, requests, tool, exitStatus>>
    /\ UNCHANGED pipeVars

\* download_file, line 118: iter_content raises while body is still outstanding
Interrupt ==
    /\ tool = "import" /\ pc = "stream"
    /\ dl.body # <<>>
    /\ cut' = IF (dl.mode = "wb" \/ dl.name \in cut) /\ disk[dl.name] # <<>>
              THEN cut \cup {dl.name} ELSE cut \ {dl.name}
    /\ fstate' = [fstate EXCEPT ![li] = "failed"]
    /\ dl' = NoDl
    /\ pc' = "fatal"
    /\ exitStatus' = 1
    /\ UNCHANGED <<run, pages, token, keys, chosen, fetch, pi, li, downloaded_bytes,
                   disk, disk0, requests, tool>>
    /\ UNCHANGED pipeVars

Complete_retry ==
    /\ tool = "import" /\ pc = "stream"
    /\ dl.body = <<>>
    /\ downloaded_bytes' = Rescan(downloaded_bytes, dl.written, disk)
    /\ fetch' = [fetch EXCEPT ![li].final = dl.written]
    /\ fstate' = [fstate EXCEPT ![li] = "probed"]
    /\ cut' = cut \ {dl.name}
    /\ dl' = NoDl
    /\ pc' = "loop"
    /\ UNCHANGED <<run, pages, token, keys, chosen, pi, li, disk, disk0, requests,
                   tool, exitStatus>>
    /\ UNCHANGED pipeVars

\* download_file returns final_size; main, lines 203-215: OUT_DIR is scanned again
Complete ==
    /\ tool = "import" /\ pc = "stream"
    /\ dl.body = <<>>
    /\ downloaded_bytes' = Rescan(downloaded_bytes, dl.written, disk)
    /\ fetch' = [fetch EXCEPT ![li].final = dl.written]
    /\ fstate' = [fstate EXCEPT ![li] = "complete"]
    /\ cut' = cut \ {dl.name}
    /\ dl' = NoDl
    /\ li' = li + 1
    /\ pc' = "loop"
    /\ UNCHANGED <<run, pages, token, keys, chosen, pi, disk, disk0, requests,
                   tool, exitStatus>>
    /\ UNCHANGED pipeVars

\* the program is started again on the directory the previous run left
Rerun ==
    /\ tool = "import" /\ pc \in {"done", "fatal"}
    /\ run < MaxRuns
    /\ run' = run + 1
    /\ disk0' = disk
    /\ pc' = "list"
    /\ token' = 0
    /\ keys' = <<>>
    /\ chosen' = <<>>
    /\ fstate' = <<>>
    /\ fetch' = <<>>
    /\ pi' = 1
    /\ li' = 1
    /\ downloaded_bytes' = 0
    /\ requests' = <<>>
    /\ dl' = NoDl
    /\ exitStatus' = None
    /\ UNCHANGED <<pages, disk, cut, tool>>
    /\ UNCHANGED pipeVars

Next ==
    \/ ListPage
    \/ ListFail
    \/ SelectNone
    \/ Select
    \/ Probe
    \/ ScanDir
    \/ Finished
    \/ Skip
    \/ StartDownload
    \/ DownloadRefused
    \/ WriteChunk
    \/ Interrupt
    \/ Complete
    \/ Rerun

Spec == Init /\ [][Next]_vars

\* the steps of one run of main: everything but the start of another run
RunStep ==
    \/ ListPage
    \/ ListFail
    \/ SelectNone
    \/ Select
    \/ Probe
    \/ ScanDir
    \/ Finished
    \/ Skip
    \/ StartDownload
    \/ DownloadRefused
    \/ WriteChunk
    \/ Interrupt
    \/ Complete

\* main runs in one thread and every network call carries timeout=TIMEOUT, so a
\* started run keeps taking steps; nothing obliges anyone to start another run
SpecLive == Init /\ [][Next]_vars /\ WF_vars(RunStep)


-----------------------------------------------------------------------------
(* import_data.py: listing and selection alone, over a larger remote listing *)

SelPageLen == 4   \* keys on one listing page

SelPool ==
    << YearKey(2016), YearKey(2012), DecadeKey(2010), YearKey(2009), StrayKey,
       YearKey(2010), <<"amazon_reviews", "/", "x", "/">> \o basename(YearKey(2012)),
       YearKey(2015), OtherKey, YearKey(2011), YearKey(2014), YearKey(2013) >>

RECURSIVE Pick(_, _, _)
Pick(s, S, j) ==
    IF j > Len(s) THEN <<>>
    ELSE (IF j \in S THEN <<s[j]>> ELSE <<>>) \o Pick(s, S, j + 1)

RECURSIVE Paginate(_, _)
Paginate(ks, no) ==
    IF Len(ks) <= SelPageLen THEN <<Page(ks, 0)>>
    ELSE <<Page(SubSeq(ks, 1, SelPageLen), 100 - no)>>
         \o Paginate(SubSeq(ks, SelPageLen + 1, Len(ks)), no + 1)

SelListings == {Paginate(Pick(SelPool, S, 1), 1) : S \in SUBSET (1..Len(SelPool))}

InitSelect ==
    /\ tool = "import"
    /\ run = 1
    /\ pages \in SelListings
    /\ disk = [nm \in DiskNames |-> NoFile]
    /\ disk0 = disk
    /\ cut = {}
    /\ RunStart
    /\ PipeIdle

NextSelect ==
    \/ ListPage
    \/ ListFail
    \/ SelectNone
    \/ Select

SpecSelect == InitSelect /\ [][NextSelect]_vars

-----------------------------------------------------------------------------
(* merge_clean_all.py and view_data.py: values, rows and files *)

\* a nullable integer column value: <<>> is NULL, <<v>> is v
Null    == <<>>
Some(v) == <<v>>

\* a text column value: NULL, bytes that are not valid UTF-8, or a string
NullText    == [kind |-> "null",    chars |-> <<>>]
InvalidText == [kind |-> "invalid", chars |-> <<"?">>]
Text(cs)    == [kind |-> "text",    chars |-> cs]

\* try_cast(col AS VARCHAR): NULL when the bytes are not valid text
try_cast_varchar(t) == IF t.kind = "text" THEN t ELSE NullText

\* CAST(col AS BLOB): the bytes, whatever they are
cast_blob(t) == IF t.kind = "null" THEN t ELSE [kind |-> "blob", chars |-> t.chars]

RECURSIVE LTrim(_)
LTrim(cs) == IF cs # <<>> /\ Head(cs) = " " THEN LTrim(Tail(cs)) ELSE cs

RECURSIVE RTrim(_)
RTrim(cs) ==
    IF cs # <<>> /\ cs[Len(cs)] = " " THEN RTrim(SubSeq(cs, 1, Len(cs) - 1)) ELSE cs

\* TRIM(s): s without its leading and trailing blanks
TRIM(cs) == RTrim(LTrim(cs))

\* SQL truth values: "T", "F" and "N" (NULL)
Or3(a, b)  == IF a = "T" \/ b = "T" THEN "T" ELSE IF a = "N" \/ b = "N" THEN "N" ELSE "F"
And3(a, b) == IF a = "F" \/ b = "F" THEN "F" ELSE IF a = "N" \/ b = "N" THEN "N" ELSE "T"
B3(b)      == IF b THEN "T" ELSE "F"
IsNull3(v) == B3(v = Null)
Le3(a, b)  == IF a = Null \/ b = Null THEN "N" ELSE B3(a[1] <= b[1])

\* x BETWEEN lo AND hi
Between3(x, lo, hi) == And3(Le3(Some(lo), x), Le3(x, Some(hi)))

VotesClause_bothset(r) == Le3(r.helpful_votes, r.total_votes)

\* helpful_votes IS NULL OR total_votes IS NULL OR helpful_votes <= total_votes
VotesClause(r) ==
    Or3(Or3(IsNull3(r.helpful_votes), IsNull3(r.total_votes)),
        Le3(r.helpful_votes, r.total_votes))

RatingClause_from0(r) ==
    Or3(IsNull3(r.star_rating), Between3(r.star_rating, 0, 5))

\* star_rating IS NULL OR star_rating BETWEEN 1 AND 5
RatingClause(r) ==
    Or3(IsNull3(r.star_rating), Between3(r.star_rating, 1, 5))

\* txt IS NOT NULL AND TRIM(txt) <> ''
NotBlank3(txt) ==
    And3(B3(txt.kind # "null"),
         IF txt.kind = "null" THEN "N" ELSE B3(TRIM(txt.chars) # <<>>))

CategoryClause(r) == NotBlank3(try_cast_varchar(r.product_category))
BodyClause(r)     == NotBlank3(try_cast_varchar(r.review_body))

Clause(c, r) ==
    CASE c = "votes"    -> VotesClause(r)
      [] c = "rating"   -> RatingClause(r)
      [] c = "category" -> CategoryClause(r)
      [] c = "body"     -> BodyClause(r)

\* merge_clean_all.py lines 34-41: where_clauses as built from the flags
WhereClauses(f) ==
    {"votes", "rating"}
    \cup (IF f.drop_blank_category THEN {"category"} ELSE {})
    \cup (IF f.drop_blank_body THEN {"body"} ELSE {})

QueryClauses_gated(wc) == wc

\* the WHERE of the query text (lines 81-88); where_sql is not interpolated into it
QueryClauses(wc) == {"votes", "rating", "category", "body"}

\* the projection of lines 58-79 / view_data.py lines 47-69 on the modelled columns
Project(r, src) ==
    [review_id        |-> r.review_id,
     product_category |-> r.product_category,
     star_rating      |-> r.star_rating,
     helpful_votes    |-> r.helpful_votes,
     total_votes      |-> r.total_votes,
     review_body_blob |-> cast_blob(r.review_body),
     source_file      |-> src]

Row(id, h, t, s, c, b) ==
    [review_id |-> id, helpful_votes |-> h, total_votes |-> t, star_rating |-> s,
     product_category |-> c, review_body |-> b]

Good == Row(1, Some(1), Some(2), Some(5), Text(<<"a">>), Text(<<"a">>))

\* the rows file A is filled from: Good with one column changed at a time
RowPool ==
    { Good,
      [Good EXCEPT !.star_rating = Some(1)],
      [Good EXCEPT !.review_id = 12],
      [Good EXCEPT !.review_id = 2, !.helpful_votes = Some(3)],
      [Good EXCEPT !.review_id = 3, !.helpful_votes = Null],
      [Good EXCEPT !.review_id = 4, !.star_rating = Some(0)],
      [Good EXCEPT !.review_id = 5, !.star_rating = Some(6)],
      [Good EXCEPT !.review_id = 6, !.product_category = Text(<<" ">>)],
      [Good EXCEPT !.review_id = 7, !.product_category = InvalidText],
      [Good EXCEPT !.review_id = 8, !.review_body = NullText],
      [Good EXCEPT !.review_id = 9, !.review_body = Text(<<" ", "a">>)] }

BoundedSeq(S, n) == UNION {[1..m -> S] : m \in 0..n}

DATA_DIR == <<"data">>

\* os.path.join(data_dir, name)
JoinPath(dir, name) == dir \o <<"/">> \o name

FileA == <<"amazon_reviews", "_", "2", "0", "1", "0">> \o SNAPPY
FileB == <<"amazon_reviews", "_", "2", "0", "1", "1">> \o SNAPPY

\* what file B may hold
FileBRows ==
    { <<[Good EXCEPT !.star_rating = Some(6)], [Good EXCEPT !.review_id = 2]>>,
      <<[Good EXCEPT !.review_id = 3],
        [Good EXCEPT !.review_id = 2, !.product_category = Text(<<" ">>)],
        [Good EXCEPT !.review_id = 3, !.star_rating = Some(2)]>>,
      <<[Good EXCEPT !.total_votes = Null, !.star_rating = Null, !.helpful_votes = Some(3)],
        [Good EXCEPT !.review_id = 2, !.product_category = NullText],
        [Good EXCEPT !.review_id = 3, !.review_body = InvalidText],
        [Good EXCEPT !.review_id = 5, !.review_body = Text(<<>>)]>> }

\* the directories the tools are run on
DataDirs ==
    {[nm \in {NotesFile} |-> <<>>]}
    \cup {[nm \in {NotesFile, FileA} |-> IF nm = FileA THEN a ELSE <<>>] :
            a \in BoundedSeq(RowPool, MaxRows)}
    \cup {[nm \in {NotesFile, FileA, FileB} |->
             IF nm = FileA THEN a ELSE IF nm = FileB THEN b ELSE <<>>] :
            a \in BoundedSeq(RowPool, MaxRows), b \in FileBRows}

\* fnmatch(name, "amazon_reviews_*.snappy.parquet")
MatchesPattern(name) ==
    /\ Len(name) >= 3
    /\ StartsWith(name, <<"amazon_reviews", "_">>)
    /\ EndsWith(name, SNAPPY)

\* position of a token's first character in the character order
TokenRank(tok) ==
    CASE tok \in {".snappy.parquet", ".parquet", ".txt"} -> 0
      [] tok = "/" -> 1
      [] tok \in Digits -> 2 + DigitVal(tok)
      [] tok = "_" -> 12
      [] tok = "amazon_reviews" -> 13
      [] tok = "data" -> 14
      [] tok = "notes" -> 15
      [] tok = "old" -> 16
      [] tok = "s" -> 17
      [] OTHER -> 18

RECURSIVE StrLess(_, _)
StrLess(a, b) ==
    IF a = <<>> THEN b # <<>>
    ELSE IF b = <<>> THEN FALSE
    ELSE IF TokenRank(Head(a)) # TokenRank(Head(b))
         THEN TokenRank(Head(a)) < TokenRank(Head(b))
         ELSE StrLess(Tail(a), Tail(b))

RECURSIVE SortedSeq(_)
SortedSeq(S) ==
    IF S = {} THEN <<>>
    ELSE LET m == CHOOSE x \in S : \A y \in S \ {x} : StrLess(x, y)
         IN  <<m>> \o SortedSeq(S \ {m})

\* sorted(glob.glob(os.path.join(data_dir, "amazon_reviews_*.snappy.parquet")))
GlobFiles(dir) ==
    SortedSeq({JoinPath(DATA_DIR, nm) : nm \in {x \in DOMAIN dir : MatchesPattern(x)}})

RowsOf(dir, path) == dir[basename(path)]

NoInput_never(files) == FALSE

\* if not files: raise SystemExit(...)
NoInput(files) == files = <<>>

RECURSIVE FilterRows(_, _)
FilterRows(rows, cl) ==
    IF rows = <<>> THEN <<>>
    ELSE (IF \A c \in cl : Clause(c, Head(rows)) = "T" THEN <<Head(rows)>> ELSE <<>>)
         \o FilterRows(Tail(rows), cl)

RECURSIVE MergeScan(_, _, _)
MergeScan(dir, files, cl) ==
    IF files = <<>> THEN <<>>
    ELSE LET f == Head(files)
             kept == FilterRows(RowsOf(dir, f), cl)
         IN  [j \in 1..Len(kept) |-> Project(kept[j], f)] \o MergeScan(dir, Tail(files), cl)

\* the COPY (...) query of merge_clean_all.py, lines 47-91
MergeQuery(dir, wc) == MergeScan(dir, GlobFiles(dir), QueryClauses(wc))

\* stands for the engine's hash(review_id); 1 and 12 collide
Hash(id) == (7 * id) % 11

Perms(n) == {f \in [1..n -> 1..n] : \A a, b \in 1..n : f[a] = f[b] => a = b}

\* ORDER BY hash(review_id): every order of the rows that is ascending in the hash;
\* the engine does not define the order of rows with equal hash
HashOrders(rows) ==
    {[j \in 1..Len(rows) |-> rows[f[j]]] :
        f \in {g \in Perms(Len(rows)) :
                 \A a, b \in 1..Len(rows) :
                    a < b => Hash(rows[g[a]].review_id) <= Hash(rows[g[b]].review_id)}}

Min(a, b) == IF a < b THEN a ELSE b

Limit_filtered(rows, n) ==
    LET kept == FilterRows(rows, {"votes", "rating", "category", "body"})
    IN  SubSeq(kept, 1, Min(n, Len(kept)))

\* LIMIT n
Limit(rows, n) == SubSeq(rows, 1, Min(n, Len(rows)))

\* one per-file SELECT of view_data.py (lines 46-73): its possible results
SampleFile(dir, f, n) ==
    {[j \in 1..Len(s) |-> Project(s[j], basename(f))] :
        s \in {Limit(o, n) : o \in HashOrders(RowsOf(dir, f))}}

\* the UNION ALL of the per-file selects, in the order of files
RECURSIVE SampleQuery(_, _, _)
SampleQuery(dir, files, n) ==
    IF files = <<>> THEN {<<>>}
    ELSE {a \o b : a \in SampleFile(dir, Head(files), n),
                   b \in SampleQuery(dir, Tail(files), n)}

-----------------------------------------------------------------------------
(* merge_clean_all.py and view_data.py: the runs *)

DlIdle ==
    /\ pages = <<>>
    /\ token = 0
    /\ keys = <<>>
    /\ chosen = <<>>
    /\ fstate = <<>>
    /\ fetch = <<>>
    /\ pi = 1
    /\ li = 1
    /\ downloaded_bytes = 0
    /\ disk = [nm \in DiskNames |-> NoFile]
    /\ disk0 = disk
    /\ cut = {}
    /\ requests = <<>>
    /\ dl = NoDl

\* an --out file left by an earlier use of the tool
OldOut == [exists |-> TRUE, rows |-> <<Project(Good, <<"x">>)>>]

InitPipe ==
    /\ tool \in {"merge", "sample"}
    /\ run = 1
    /\ pc = "glob"
    /\ dataDir \in DataDirs
    /\ nArg \in (IF tool = "sample" THEN 0..MaxN ELSE {0})
    /\ flags \in (IF tool = "merge"
                  THEN [drop_blank_category : BOOLEAN, drop_blank_body : BOOLEAN]
                  ELSE {[drop_blank_category |-> FALSE, drop_blank_body |-> FALSE]})
    /\ where_clauses = {}
    /\ engineCalls = 0
    /\ out \in {NoOut, OldOut}
    /\ prevOut = out
    /\ diag = ""
    /\ exitStatus = None
    /\ DlIdle

\* merge_clean_all.py lines 24-27 / view_data.py lines 30-36: no input file
NoFilesExit ==
    /\ tool \in {"merge", "sample"} /\ pc = "glob"
    /\ NoInput(GlobFiles(dataDir))
    /\ diag' = IF tool = "merge" THEN "No files matched" ELSE "No files found"
    /\ exitStatus' = 1
    /\ pc' = "fatal"
    /\ UNCHANGED <<tool, dataDir, nArg, flags, where_clauses, engineCalls, out, prevOut>>
    /\ UNCHANGED dlVars

\* merge_clean_all.py lines 29-45: the connection and where_sql
MergePrepare ==
    /\ tool = "merge" /\ pc = "glob"
    /\ ~NoInput(GlobFiles(dataDir))
    /\ where_clauses' = WhereClauses(flags)
    /\ pc' = "execute"
    /\ UNCHANGED <<tool, dataDir, nArg, flags, engineCalls, out, prevOut, diag, exitStatus>>
    /\ UNCHANGED dlVars

\* merge_clean_all.py lines 47-95: con.execute
MergeExecute ==
    /\ tool = "merge" /\ pc = "execute"
    /\ engineCalls' = engineCalls + 1
    /\ out' = [exists |-> TRUE, rows |-> MergeQuery(dataDir, where_clauses)]
    /\ exitStatus' = 0
    /\ pc' = "done"
    /\ UNCHANGED <<tool, dataDir, nArg, flags, where_clauses, prevOut, diag>>
    /\ UNCHANGED dlVars

\* view_data.py lines 38-94: the selects are built and con.execute runs them
SampleExecute ==
    /\ tool = "sample" /\ pc = "glob"
    /\ ~NoInput(GlobFiles(dataDir))
    /\ engineCalls' = engineCalls + 1
    /\ \E rows \in SampleQuery(dataDir, GlobFiles(dataDir), nArg) :
          out' = [exists |-> TRUE, rows |-> rows]
    /\ exitStatus' = 0
    /\ pc' = "done"
    /\ UNCHANGED <<tool, dataDir, nArg, flags, where_clauses, prevOut, diag>>
    /\ UNCHANGED dlVars

\* the tool is run a second time with the same arguments on the same directory
PipeRerun ==
    /\ tool \in {"merge", "sample"} /\ pc \in {"done", "fatal"}
    /\ run = 1
    /\ run' = run + 1
    /\ prevOut' = out
    /\ where_clauses' = {}
    /\ engineCalls' = 0
    /\ diag' = ""
    /\ exitStatus' = None
    /\ pc' = "glob"
    /\ UNCHANGED <<tool, dataDir, nArg, flags, out>>
    /\ UNCHANGED <<pages, token, keys, chosen, fstate, fetch, pi, li,
                   downloaded_bytes, disk, disk0, cut, requests, dl>>

NextPipe ==
    \/ NoFilesExit
    \/ MergePrepare
    \/ MergeExecute
    \/ SampleExecute
    \/ PipeRerun

SpecPipe == InitPipe /\ [][NextPipe]_vars

-----------------------------------------------------------------------------
(* Properties of the downloader *)

GetsFor(key) ==
    {j \in 1..Len(requests) : requests[j].method = "GET" /\ requests[j].key = key}

HeadsFor(key) ==
    {j \in 1..Len(requests) : requests[j].method = "HEAD" /\ requests[j].key = key}

Chosen == 1..Len(chosen)

LocalName(j) == basename(chosen[j].key)

\* the local file of chosen[j] was at least as large as the object when the run started
WasLargeEnough(j) ==
    /\ disk0[LocalName(j)] # NoFile
    /\ Len(disk0[LocalName(j)]) >= RemoteSize(chosen[j].key)

\* C1: a chosen file whose probed size is known and whose local file exists with
\* at least that size gets no GET request and keeps its bytes; once the download
\* loop has passed it, it is marked skipped.
C1_CompleteIsSkipped ==
    \A j \in Chosen :
        (/\ fstate[j] # "idle"
         /\ chosen[j].size_bytes # None
         /\ disk0[LocalName(j)] # NoFile
         /\ Len(disk0[LocalName(j)]) >= chosen[j].size_bytes)
        => /\ GetsFor(chosen[j].key) = {}
           /\ disk[LocalName(j)] = disk0[LocalName(j)]
           /\ fstate[j] \in {"probed", "skipped"}
           /\ (li > j => fstate[j] = "skipped")

C1_Witness ==
    \E j \in Chosen :
        /\ fstate[j] = "skipped"
        /\ Len(disk0[LocalName(j)]) = chosen[j].size_bytes
        /\ \E h \in Chosen : fstate[h] = "complete"

\* C2: when a download_file call that found the E bytes (0 < E < size) left by an
\* interrupted fetch runs to completion, the local file holds exactly the bytes of
\* the remote object, whether the server answered 206 (append) or 200 (overwrite).
C2_ResumeIdentical ==
    \A j \in Chosen :
        (/\ fstate[j] = "complete"
         /\ fetch[j].wasCut
         /\ fetch[j].E > 0
         /\ fetch[j].E < RemoteSize(chosen[j].key)
         /\ fetch[j].status \in {200, 206})
        => disk[LocalName(j)] = RemoteContent(chosen[j].key)

C2_Witness ==
    \E j \in Chosen :
        /\ fstate[j] = "complete"
        /\ fetch[j].wasCut
        /\ fetch[j].E = 2
        /\ fetch[j].status = 206
        /\ disk[LocalName(j)] = RemoteContent(chosen[j].key)

\* C3 as stated: every chosen file whose probed size is unknown is fetched in the run.
C3_UnknownAlwaysFetched ==
    pc = "done" =>
        \A j \in Chosen :
            chosen[j].size_bytes = None => GetsFor(chosen[j].key) # {}

\* C3 amended: whenever the download loop reaches a chosen file whose probed size
\* is unknown while the budget is unmet, the next step sends a GET for it (with the
\* Range offset of the local file, whatever its size) and never marks it skipped.
C3_UnknownFetchedWhenReached ==
    [][(/\ pc = "loop"
        /\ li <= Len(chosen)
        /\ downloaded_bytes < TARGET_BYTES
        /\ chosen[li].size_bytes = None)
       => (/\ requests' = Append1(requests,
                  Req("GET", chosen[li].key, Existing(disk[LocalName(li)])))
           /\ fstate'[li] \in {"downloading", "failed"})]_vars

C3_Witness ==
    \E j \in Chosen :
        /\ chosen[j].size_bytes = None
        /\ WasLargeEnough(j)
        /\ fstate[j] = "complete"
        /\ GetsFor(chosen[j].key) # {}

\* C4 as stated: once the budget is met the remaining files are neither probed nor
\* fetched; with the 1 GB budget and three 0.6 GB files the third is never probed.
C4_RestNeverProbed ==
    pc = "done" =>
        \A j \in li..Len(chosen) :
            /\ HeadsFor(chosen[j].key) = {}
            /\ GetsFor(chosen[j].key) = {}

\* the run starts on an empty directory and all three objects are chosen
Scenario3 ==
    /\ run = 1
    /\ \A nm \in DiskNames : EndsWithParquet(nm) => disk0[nm] = NoFile
    /\ Len(chosen) = 3

\* C4 amended: files are processed in selection order; a file is processed only
\* while the directory total is below the budget, and when the run ends with the
\* budget met every remaining file has been probed (all HEAD requests precede the
\* downloads) but has no GET request, is neither skipped nor downloaded, and keeps
\* its local bytes.  With the 1 GB budget and three 0.6 GB files the first two are
\* fetched and the third is probed but never fetched.
C4_BudgetStop ==
    [][/\ (fstate' # fstate /\ pc \in {"loop", "stream"})
          => (/\ downloaded_bytes < TARGET_BYTES \/ pc = "stream"
              /\ \A j \in Chosen : j > li => fstate'[j] = "probed"
              /\ \A j \in Chosen : j < li => fstate'[j] \in {"skipped", "complete"})
       /\ (pc = "loop" /\ pc' = "done")
          => (/\ li <= Len(chosen) => downloaded_bytes >= TARGET_BYTES
              /\ downloaded_bytes = DirTotal(disk)
              /\ \A j \in li..Len(chosen) :
                    /\ GetsFor(chosen[j].key) = {}
                    /\ Cardinality(HeadsFor(chosen[j].key)) = 1
                    /\ fstate[j] = "probed"
                    /\ disk[LocalName(j)] = disk0[LocalName(j)]
              /\ Scenario3 =>
                    /\ li = 3
                    /\ fstate = <<"complete", "complete", "probed">>
                    /\ disk[LocalName(1)] = RemoteContent(chosen[1].key)
                    /\ disk[LocalName(2)] = RemoteContent(chosen[2].key)
                    /\ disk[LocalName(3)] = NoFile)]_vars

C4_Witness ==
    /\ pc = "done"
    /\ Scenario3
    /\ fstate = <<"complete", "complete", "probed">>
    /\ GetsFor(chosen[3].key) = {}
    /\ HeadsFor(chosen[3].key) # {}

\* the keys of all listing pages
AllListed == UNION {Range(pages[p].keys) : p \in 1..Len(pages)}

\* key is named "...amazon_reviews_<year>.snappy.parquet"
IsExactYearKey(key, y) ==
    EndsWith(key, <<"amazon_reviews", "_">> \o Year4(y) \o SNAPPY)

RECURSIVE ListedYears(_)
ListedYears(ys) ==
    IF ys = <<>> THEN <<>>
    ELSE (IF \E k \in AllListed : IsExactYearKey(k, Head(ys)) THEN <<Head(ys)>> ELSE <<>>)
         \o ListedYears(Tail(ys))

\* C5: the selection holds, in the order of the target years, exactly one RemoteFile
\* for each target year that has an exact-year key in the listing; its key is such a
\* listed key of that year (never a decade key or another key); if no target year is
\* listed the run is fatal.  With 2009..2016 listed all six target years are chosen.
C5_SelectionExact ==
    [][pc = "select" =>
         /\ pc' = "probe" =>
               /\ [j \in 1..Len(chosen') |-> chosen'[j].year] = ListedYears(TARGET_YEARS)
               /\ \A j \in 1..Len(chosen') :
                     /\ chosen'[j].key \in AllListed
                     /\ IsExactYearKey(chosen'[j].key, chosen'[j].year)
               /\ ({YearKey(y) : y \in 2009..2016} \subseteq AllListed
                     => [j \in 1..Len(chosen') |-> chosen'[j].year] = TARGET_YEARS)
         /\ pc' = "fatal" => ListedYears(TARGET_YEARS) = <<>>]_vars

C5_Witness ==
    /\ pc = "probe"
    /\ {YearKey(y) : y \in 2009..2016} \subseteq AllListed
    /\ DecadeKey(2010) \in AllListed
    /\ [j \in Chosen |-> chosen[j].key] = [j \in 1..6 |-> YearKey(2009 + j)]


-----------------------------------------------------------------------------
(* Properties of the pipelines *)

OutRows == 1..Len(out.rows)

InputNames == {nm \in DOMAIN dataDir : MatchesPattern(nm)}

\* C6: the merged output has no row with both vote counts set and helpful > total,
\* and no row whose rating is set and outside 1..5, whatever file it came from.
C6_VotesAndRatingValid ==
    (tool = "merge" /\ pc = "done") =>
        \A j \in OutRows :
            LET r == out.rows[j]
            IN  /\ ~(/\ r.helpful_votes # Null
                     /\ r.total_votes # Null
                     /\ r.helpful_votes[1] > r.total_votes[1])
                /\ ~(/\ r.star_rating # Null
                     /\ (r.star_rating[1] < 1 \/ r.star_rating[1] > 5))

C6_Witness ==
    /\ tool = "merge" /\ pc = "done"
    /\ FileB \in DOMAIN dataDir
    /\ dataDir[FileA] = <<[Good EXCEPT !.review_id = 2, !.helpful_votes = Some(3)], Good>>
    /\ [Good EXCEPT !.star_rating = Some(6)] \in Range(dataDir[FileB])
    /\ Len(out.rows) = 2

\* a text value that is set, valid and not blank
HasText(t) ==
    /\ t.kind \in {"text", "blob"}
    /\ "?" \notin Range(t.chars)
    /\ \E c \in Range(t.chars) : c # " "

FlagCombos == [drop_blank_category : BOOLEAN, drop_blank_body : BOOLEAN]

\* C7: every row of the merged output has a category and a body that are set, valid
\* text and not blank after trimming, and the output is the one the query produces
\* for each of the four combinations of --drop_blank_category and --drop_blank_body.
C7_BlankChecksUnconditional ==
    (tool = "merge" /\ pc = "done") =>
        /\ \A j \in OutRows :
              /\ HasText(out.rows[j].product_category)
              /\ HasText(out.rows[j].review_body_blob)
        /\ \A f \in FlagCombos : out.rows = MergeQuery(dataDir, WhereClauses(f))

C7_Witness ==
    /\ tool = "merge" /\ pc = "done"
    /\ flags = [drop_blank_category |-> FALSE, drop_blank_body |-> FALSE]
    /\ dataDir[FileA] = <<[Good EXCEPT !.review_id = 6, !.product_category = Text(<<" ">>)],
                          [Good EXCEPT !.review_id = 9, !.review_body = Text(<<" ", "a">>)]>>
    /\ FileB \in DOMAIN dataDir
    /\ Len(dataDir[FileB]) = 4
    /\ Len(out.rows) = 2

\* the output rows tagged with file name nm
Tagged(nm) == {j \in OutRows : out.rows[j].source_file = nm}

\* C8: the sample holds, for each input file, exactly min(n, rows of the file) rows
\* tagged with the file's base name, each of them a (projected) row of that file
\* taken no more often than the file holds it, and no row with another tag.
C8_PerFileCount ==
    (tool = "sample" /\ pc = "done") =>
        /\ \A j \in OutRows : out.rows[j].source_file \in InputNames
        /\ \A nm \in InputNames :
              /\ Cardinality(Tagged(nm)) = Min(nArg, Len(dataDir[nm]))
              /\ \A j \in Tagged(nm) :
                    Cardinality({h \in Tagged(nm) : out.rows[h] = out.rows[j]})
                    <= Cardinality({h \in 1..Len(dataDir[nm]) :
                                      Project(dataDir[nm][h], nm) = out.rows[j]})

C8_Witness ==
    /\ tool = "sample" /\ pc = "done"
    /\ nArg = 2
    /\ dataDir[FileA] = <<[Good EXCEPT !.review_id = 5, !.star_rating = Some(6)]>>
    /\ FileB \in DOMAIN dataDir
    /\ Len(dataDir[FileB]) = 3
    /\ Cardinality(Tagged(FileA)) = 1
    /\ Cardinality(Tagged(FileB)) = 2

\* C9: a second run of the sampling tool on the same files with the same n writes
\* the same rows as the first run.
C9_SameRowsTwice ==
    (tool = "sample" /\ pc = "done" /\ run = 2) =>
        /\ Range(out.rows) = Range(prevOut.rows)
        /\ Len(out.rows) = Len(prevOut.rows)

\* C10: when no file of the directory matches the pattern, either tool ends fatally
\* with a non-zero exit status and a diagnostic, the engine is never invoked and
\* the --out file stays as it was.
C10_NoInputIsFatal ==
    (tool \in {"merge", "sample"} /\ InputNames = {}) =>
        /\ pc \in {"glob", "fatal"}
        /\ engineCalls = 0
        /\ out = prevOut
        /\ pc = "fatal" => (exitStatus > 0 /\ diag # "")

C10_Witness ==
    /\ tool = "merge" /\ pc = "fatal"
    /\ InputNames = {}
    /\ out = OldOut
    /\ exitStatus = 1

-----------------------------------------------------------------------------
(* Properties of the downloader, continued *)

\* the continuation tokens of the listing requests sent so far, in order
ListTokens ==
    LET idx == {j \in 1..Len(requests) : requests[j].method = "LIST"}
        RECURSIVE Starts(_)
        Starts(S) == IF S = {} THEN <<>>
                     ELSE LET m == CHOOSE x \in S : \A y \in S : x <= y
                          IN  <<requests[m].start>> \o Starts(S \ {m})
    IN  Starts(idx)

IsParquetKey(k) == k[Len(k)] = ".snappy.parquet"

\* the keys of pages 1..p in page order, those with the suffix only
RECURSIVE SuffixKeysUpTo(_)
SuffixKeysUpTo(p) ==
    IF p = 0 THEN <<>>
    ELSE SuffixKeysUpTo(p - 1) \o SelectSeq(pages[p].keys, IsParquetKey)

\* C11: the first listing request carries no token, each later one carries the token
\* of the response before it, and when list_keys returns it has sent one request per
\* page of the chain and holds exactly the keys of all pages that end in the suffix,
\* each as often as the pages hold it.
C11_PaginationComplete ==
    /\ \A j \in 1..Len(ListTokens) :
          /\ j <= Len(pages)
          /\ ListTokens[j] = (IF j = 1 THEN 0 ELSE pages[j - 1].next)
    /\ pc = "select" =>
          /\ Len(ListTokens) = Len(pages)
          /\ keys = SuffixKeysUpTo(Len(pages))

C11_Witness ==
    /\ pc = "select"
    /\ Len(pages) = 3
    /\ ListTokens = <<0, pages[1].next, pages[2].next>>
    /\ OtherKey \in AllListed
    /\ Len(keys) = 11

\* C12: when a GET sent with a Range header (E > 0 local bytes) is answered 200, the
\* file is opened for overwrite: while streaming it holds only bytes of the response,
\* and after completion it holds exactly the response body, its size is the object's
\* size and the returned byte count is that size, not E more.
C12_FullContentOverwrites ==
    \A j \in Chosen :
        (fetch[j].E > 0 /\ fetch[j].status = 200) =>
            /\ fstate[j] = "downloading" =>
                  /\ dl.mode = "wb"
                  /\ disk[LocalName(j)] = SubSeq(RemoteContent(chosen[j].key), 1, dl.written)
            /\ fstate[j] = "complete" =>
                  /\ disk[LocalName(j)] = RemoteContent(chosen[j].key)
                  /\ Len(disk[LocalName(j)]) = RemoteSize(chosen[j].key)
                  /\ fetch[j].final = RemoteSize(chosen[j].key)

C12_Witness ==
    \E j \in Chosen :
        /\ fetch[j].E = 1
        /\ disk0[LocalName(j)] = <<0>>
        /\ fetch[j].status = 200
        /\ fstate[j] = "complete"
        /\ fetch[j].final = RemoteSize(chosen[j].key)

\* the bytes an interrupted stream can have flushed: base followed by a proper
\* prefix of body
FlushedParts(base, body) ==
    {base \o SubSeq(body, 1, k) : k \in 0..(Len(body) - 1)}

\* C13: a fetch is only ever streamed on a success status; when a fetch is refused
\* (non-success status or transport failure) or its stream breaks, the run is fatal
\* with exit status 1, the failing file got exactly one GET, every later file of the
\* selection is neither fetched nor skipped and keeps its bytes, and the failing file
\* keeps what was on disk: unchanged if the request was refused, otherwise the bytes
\* flushed so far.
C13_FetchFailureAborts ==
    /\ \A j \in Chosen :
          fstate[j] \in {"downloading", "complete"} => fetch[j].status \in {200, 206}
    /\ \A j \in Chosen :
          fstate[j] = "failed" =>
              /\ pc = "fatal" /\ li = j /\ exitStatus = 1
              /\ Cardinality(GetsFor(chosen[j].key)) = 1
              /\ \A h \in Chosen :
                    h > j => /\ fstate[h] = "probed"
                             /\ GetsFor(chosen[h].key) = {}
                             /\ disk[LocalName(h)] = disk0[LocalName(h)]
              /\ \A h \in Chosen : h < j => fstate[h] \in {"skipped", "complete"}
              /\ fetch[j].status \notin {200, 206} =>
                    disk[LocalName(j)] = disk0[LocalName(j)]
              /\ fetch[j].status = 206 =>
                    disk[LocalName(j)] \in
                        FlushedParts(disk0[LocalName(j)],
                                     SubSeq(RemoteContent(chosen[j].key), fetch[j].E + 1,
                                            RemoteSize(chosen[j].key)))
              /\ fetch[j].status = 200 =>
                    disk[LocalName(j)] \in FlushedParts(<<>>, RemoteContent(chosen[j].key))

C13_Witness ==
    /\ pc = "fatal"
    /\ Len(chosen) = 3
    /\ fstate = <<"complete", "failed", "probed">>
    /\ fetch[2].status = 200
    /\ Len(disk[LocalName(2)]) = 2
    /\ disk0[LocalName(2)] = NoFile

\* the listing requests of the run have fetched every page of the chain
ListingWhole ==
    /\ Len(ListTokens) = Len(pages)
    /\ keys = SuffixKeysUpTo(Len(pages))

\* C14: a run in which the listing failed or the selection came out empty ends
\* fatally with no HEAD and no GET request sent and OUT_DIR as it was; probing and
\* downloading only ever happen after the whole listing was fetched and a non-empty
\* selection was made from it.
C14_AbortBeforeProbing ==
    /\ (tool = "import" /\ pc = "fatal" /\ chosen = <<>>) =>
          /\ \A j \in 1..Len(requests) : requests[j].method = "LIST"
          /\ disk = disk0
          /\ exitStatus = 1
    /\ (tool = "import" /\ pc \in {"probe", "loop", "stream", "done"}) =>
          /\ ListingWhole
          /\ chosen # <<>>
          /\ [j \in Chosen |-> chosen[j].key] =
                [j \in Chosen |-> ChooseTargets(TARGET_YEARS, YearToKey(keys, <<>>))[j].key]
          /\ Len(chosen) = Len(ChooseTargets(TARGET_YEARS, YearToKey(keys, <<>>)))
    /\ (tool = "import" /\ pc \in {"list", "select"}) =>
          /\ \A j \in 1..Len(requests) : requests[j].method = "LIST"
          /\ disk = disk0
    /\ (tool = "import" /\ pc = "fatal" /\ chosen # <<>>) => ListingWhole

C14_Witness ==
    /\ pc = "fatal"
    /\ Len(pages) = 2
    /\ Len(requests) = 2
    /\ keys = pages[1].keys
    /\ chosen = <<>>
    /\ \E nm \in DiskNames : disk[nm] # NoFile /\ EndsWithParquet(nm)

\* the total the directory scan of lines 205-209 yields, summed name by name
RECURSIVE SumSizes(_, _)
SumSizes(names, d) ==
    IF names = {} THEN 0
    ELSE LET nm == CHOOSE x \in names : TRUE
         IN  (IF d[nm] # NoFile /\ EndsWithParquet(nm) THEN Len(d[nm]) ELSE 0)
             + SumSizes(names \ {nm}, d)

\* C15: whenever the budget is checked, the running total equals the summed sizes
\* of all files of OUT_DIR ending in .parquet as they are on disk at that moment,
\* files of earlier runs, partial files and files outside the selection included.
C15_TotalIsRescan ==
    (tool = "import" /\ pc = "loop") => downloaded_bytes = SumSizes(DiskNames, disk)

C15_Witness ==
    /\ pc = "loop" /\ li = 2
    /\ fstate[1] = "complete"
    /\ fetch[1].E = 1 /\ fetch[1].status = 206
    /\ disk[OldFile] # NoFile
    /\ \A nm \in DiskNames \ {OldFile, NotesFile, LocalName(1)} : disk[nm] = NoFile
    /\ downloaded_bytes = Len(disk[OldFile]) + RemoteSize(chosen[1].key)

\* the per-file transitions of one run; "failed" is the file the run died on
FileTransitions ==
    { <<"idle", "probed">>,
      <<"probed", "skipped">>,
      <<"probed", "downloading">>,
      <<"downloading", "complete">>,
      <<"probed", "failed">>,
      <<"downloading", "failed">> }

\* the position in the selection of the file a GET request asks for
ChosenIndex(key) == CHOOSE j \in Chosen : chosen[j].key = key

GetIndices == {g \in 1..Len(requests) : requests[g].method = "GET"}

C16_FileStates ==
    \A j \in Chosen :
        /\ GetsFor(chosen[j].key) # {} =>
              /\ HeadsFor(chosen[j].key) # {}
              /\ \A g \in GetsFor(chosen[j].key) :
                    \A h \in HeadsFor(chosen[j].key) : h < g
              /\ fstate[j] \in {"downloading", "complete", "failed"}
        /\ fstate[j] \in {"idle", "probed", "skipped"} => GetsFor(chosen[j].key) = {}
        /\ Cardinality(GetsFor(chosen[j].key)) <= 1
        /\ fstate[j] = "downloading" =>
              /\ pc = "stream" /\ li = j
              /\ \A h \in Chosen : h < j => fstate[h] \in {"skipped", "complete"}
              /\ \A h \in Chosen : h > j => fstate[h] = "probed"

C16_FetchOrder ==
    \A a, b \in GetIndices :
        a < b => ChosenIndex(requests[a].key) < ChosenIndex(requests[b].key)

C16_Step ==
    \A j \in DOMAIN fstate \cap DOMAIN fstate' :
        fstate'[j] # fstate[j] => <<fstate[j], fstate'[j]>> \in FileTransitions

\* C16: in one run a chosen file only moves idle -> probed -> skipped, or
\* idle -> probed -> downloading -> complete (the run dying on the file it is
\* fetching); a GET is sent for a file only after its HEAD, never for a skipped
\* file, at most once; GETs go out in selection order, one file at a time; and
\* every started run ends (done or fatal).
C16_FileLifecycle ==
    /\ [](C16_FileStates /\ C16_FetchOrder)
    /\ [][C16_Step]_vars
    /\ [](pc = "list" => <>(pc \in {"done", "fatal"}))

C16_Witness ==
    /\ pc = "done"
    /\ fstate = <<"skipped", "complete", "probed">>
    /\ Cardinality(GetIndices) = 1
    /\ \A g \in GetIndices : requests[g].key = chosen[2].key

\* the four retention conditions, read off an input row
VotesConsistent(r) ==
    r.helpful_votes = Null \/ r.total_votes = Null
        \/ r.helpful_votes[1] <= r.total_votes[1]

RatingValid(r) == r.star_rating = Null \/ r.star_rating[1] \in 1..5

Retained(r) ==
    /\ VotesConsistent(r)
    /\ RatingValid(r)
    /\ HasText(r.product_category)
    /\ HasText(r.review_body)

\* the retained rows of input file nm, by position
RetainedAt(nm) == {h \in 1..Len(dataDir[nm]) : Retained(dataDir[nm][h])}

\* C17: the merged output is exactly the retained input rows: every output row is
\* the projection of a row of the file its source_file names that meets all four
\* conditions, and every such row of every input file is in the output as often as
\* the file holds it (once per occurrence) under that file's path; the output has
\* as many rows as the inputs have retained rows.
C17_MergeComplete ==
    (tool = "merge" /\ pc = "done") =>
        /\ \A j \in OutRows :
              \E nm \in InputNames :
                 /\ out.rows[j].source_file = JoinPath(DATA_DIR, nm)
                 /\ \E h \in RetainedAt(nm) :
                       out.rows[j] = Project(dataDir[nm][h], JoinPath(DATA_DIR, nm))
        /\ \A nm \in InputNames :
              \A h \in 1..Len(dataDir[nm]) :
                 LET v == Project(dataDir[nm][h], JoinPath(DATA_DIR, nm))
                 IN  Cardinality({j \in OutRows : out.rows[j] = v})
                     = Cardinality({g \in RetainedAt(nm) :
                                      Project(dataDir[nm][g], JoinPath(DATA_DIR, nm)) = v})
        /\ \A nm \in InputNames :
              Cardinality({j \in OutRows : out.rows[j].source_file = JoinPath(DATA_DIR, nm)})
              = Cardinality(RetainedAt(nm))

C17_Witness ==
    /\ tool = "merge" /\ pc = "done"
    /\ dataDir[FileA] = <<[Good EXCEPT !.review_id = 3, !.helpful_votes = Null],
                          [Good EXCEPT !.review_id = 3, !.helpful_votes = Null]>>
    /\ FileB \in DOMAIN dataDir
    /\ Len(dataDir[FileB]) = 4
    /\ Len(out.rows) = 3
    /\ out.rows[3].source_file = JoinPath(DATA_DIR, FileB)

\* this run started with every chosen file fully downloaded and the budget unmet
StartedComplete ==
    /\ run >= 2
    /\ chosen # <<>>
    /\ \A j \in Chosen : disk0[LocalName(j)] = RemoteContent(chosen[j].key)
    /\ DirTotal(disk0) < TARGET_BYTES

\* a request of this run met a server error or a transport failure
NetworkFault ==
    \E j \in Chosen :
        /\ GetsFor(chosen[j].key) # {}
        /\ \/ fetch[j].status \in {0, 500}
           \/ fstate[j] = "failed" /\ fetch[j].status \in {200, 206}

\* C18: a run that starts with every chosen file complete on disk and the budget
\* unmet, and meets no server error or transport failure, ends without a fatal
\* error and with every local file as it was, whether the probed sizes are known
\* (the files are skipped) or unknown (the files are requested again from their
\* full size).
C18_RerunIdempotent ==
    (tool = "import" /\ StartedComplete /\ pc \in {"done", "fatal"} /\ ~NetworkFault) =>
        /\ pc = "done"
        /\ exitStatus = 0
        /\ disk = disk0

====
